---- MODULE Spec2Model ----
(***************************************************************************)
(* Model of src/battery_service.py: the BatteryService estimator of the    *)
(* Battery Proxy.  The service is constructed from a configuration         *)
(* (__init__) and then driven by a timer that calls update(); update()     *)
(* reads the values the DbusMonitor holds for the solar chargers, DC       *)
(* loads, DC sources and temperature sensors, and the clock.               *)
(*                                                                         *)
(* Numbers.  Python floats are modelled as exact rationals <<n, d>> with   *)
(* d > 0 and gcd(n, d) = 1, so that equal values are equal tuples; None is *)
(* the empty tuple.  Floating-point rounding error is not modelled; the    *)
(* explicit round() calls of the code are.                                 *)
(***************************************************************************)
EXTENDS Integers, Sequences, FiniteSets, TLC

VARIABLES
    status,        \* "init" | "running" | "failed" (__init__ raised) | "crashed" (update raised)
    config,        \* self.config
    emptyVoltage, minVoltage, fullVoltage, maxVoltage,   \* self.*Voltage
    local_values,  \* self._local_values, keyed by D-Bus path
    lastPower,     \* self.lastPower: None or PowerSample
    dataHistory,   \* self.dataHistory: sequence of DataSample
    monitor,       \* the values self.monitor holds, as read by the latest update()
    now,           \* time.perf_counter() at the latest update()
    ticks,         \* number of update() calls so far
    filteredCurrent,        \* update's local filteredCurrent, as last computed (line 257)
    filteredVoltageSample,  \* update's local filteredVoltageSample, as last computed (line 280)
    arrivals,      \* history: every DataSample ever appended (line 250), in order
    journal        \* history: for every sample of arrivals, what the monitor held and
                   \* what the tick left in the accumulator (lines 228-248)

vars == <<status, config, emptyVoltage, minVoltage, fullVoltage, maxVoltage,
          local_values, lastPower, dataHistory, monitor, now, ticks,
          filteredCurrent, filteredVoltageSample, arrivals, journal>>

----------------------------------------------------------------------------
(* Rational arithmetic standing for Python's float arithmetic.             *)

None == <<>>

Abs(n) == IF n < 0 THEN -n ELSE n

RECURSIVE GCD(_, _)
GCD(a, b) == IF b = 0 THEN a ELSE GCD(b, a % b)

\* the normal form of n/d, d # 0
Frac(n, d) ==
    LET s == IF d < 0 THEN -1 ELSE 1
        g == GCD(Abs(n), Abs(d))
    IN  <<(s * n) \div g, (s * d) \div g>>

R(n) == <<n, 1>>

\* common factors are cancelled before multiplying, which keeps the products small
RAdd(a, b) ==
    LET g == GCD(a[2], b[2])
    IN  Frac(a[1] * (b[2] \div g) + b[1] * (a[2] \div g), (a[2] \div g) * b[2])
RNeg(a)    == <<-a[1], a[2]>>
RSub(a, b) == RAdd(a, RNeg(b))
RMul(a, b) ==
    LET g1 == GCD(Abs(a[1]), b[2])
        g2 == GCD(Abs(b[1]), a[2])
    IN  <<(a[1] \div g1) * (b[1] \div g2), (a[2] \div g2) * (b[2] \div g1)>>
\* a / b; Python raises ZeroDivisionError when b = 0
RDiv(a, b) == RMul(a, IF b[1] < 0 THEN <<-b[2], -b[1]>> ELSE <<b[2], b[1]>>)
RLt(a, b)  ==
    LET g == GCD(a[2], b[2])
    IN  a[1] * (b[2] \div g) < b[1] * (a[2] \div g)
RLe(a, b)  == ~ RLt(b, a)
RMin(a, b) == IF RLt(b, a) THEN b ELSE a
RMax(a, b) == IF RLt(a, b) THEN b ELSE a

\* floor of n/d for d > 0 (\div rounds towards minus infinity)
Floor(a) == a[1] \div a[2]

\* round(x, digits) for digits = 0 or 3: to the nearest multiple of 1/scale,
\* a tie to the even multiple (Python's round)
RoundTo(x, scale) ==
    LET y == RMul(x, R(scale))
        f == Floor(y)
        twice == RSub(RMul(y, R(2)), R(2 * f))      \* 2 * (y - f) in [0, 2)
        k == IF RLt(twice, R(1)) THEN f
             ELSE IF RLt(R(1), twice) THEN f + 1
             ELSE IF f % 2 = 0 THEN f ELSE f + 1
    IN  Frac(k, scale)

\* Python truthiness of an optional number: None and 0 are false
Truthy(x) == x # None /\ x[1] # 0

----------------------------------------------------------------------------
(* Module constants, lines 19-48.                                          *)

DEPTH_OF_DISCHARGE == 50
STANDARD_TEMPERATURE == 25
TEMPERATURE_COMPENSATION == Frac(-16, 1000)
DEFAULT_MAX_VOLTAGE == Frac(148, 10)
DEFAULT_FULL_VOLTAGE == Frac(128, 10)
DEFAULT_MIN_VOLTAGE == Frac(122, 10)
DEFAULT_EMPTY_VOLTAGE == Frac(118, 10)
VOLTAGE_DEADBAND == Frac(10, 10)
MAX_DATA_HISTORY == 19
BATTERY_TEMPERATURE_SENSOR == 0
FLOAT_STATE == 5
FOREVER == 864000
ALARM_OK == 0
ALARM_WARNING == 1
ALARM_ALARM == 2

\* an anchor that keeps the clock reading of the tick before
PowerSampleStale(power, timestamp) == [power |-> power, timestamp |-> now]

PowerSample(power, timestamp) == [power |-> power, timestamp |-> timestamp]
DataSample(current, voltage, timestamp, temperature) ==
    [current |-> current, voltage |-> voltage, timestamp |-> timestamp,
     temperature |-> temperature]

\* a minimum that forgets what it held
SafeMinForgets(newValue, currentValue) == newValue

_safe_min(newValue, currentValue) ==
    IF currentValue # None THEN RMin(newValue, currentValue) ELSE newValue

_safe_max(newValue, currentValue) ==
    IF currentValue # None THEN RMax(newValue, currentValue) ELSE newValue

toKWh(joules) == RDiv(RDiv(joules, R(3600)), R(1000))

toAh(joules, voltage) == RDiv(RDiv(joules, voltage), R(3600))

compensated_voltage(voltage, temperature) ==
    RSub(voltage, RMul(RSub(temperature, R(STANDARD_TEMPERATURE)), TEMPERATURE_COMPENSATION))

----------------------------------------------------------------------------
(* BatteryService.__init__                                                 *)

\* dict.get(key, default)
ConfigGet(cfg, key, default) == IF key \in DOMAIN cfg THEN cfg[key] ELSE default

\* the three checks of lines 109-114 all pass (no ValueError is raised)
ThresholdsAccepted(emptyV, minV, fullV, maxV) ==
    /\ ~ RLt(maxV, fullV)       \* not (fullVoltage > maxVoltage)
    /\ ~ RLt(fullV, minV)       \* not (minVoltage > fullVoltage)
    /\ ~ RLt(minV, emptyV)      \* not (emptyVoltage > minVoltage)

\* the paths added at lines 119-141 with their initial values, as copied into
\* _local_values at lines 143-145 (the mandatory /Mgmt, /ProductId ... paths of
\* line 117 are never written again and are left out)
InitialValues(cfg, fullV) ==
    [p \in {"/Dc/0/Voltage", "/Dc/0/Current", "/Dc/0/Power",
            "/History/ChargedEnergy", "/History/DischargedEnergy",
            "/History/TotalAhDrawn"} |-> R(0)]
    @@ [p \in {"/Soc", "/History/MinimumVoltage", "/History/MaximumVoltage",
               "/History/DeepestDischarge"} |-> None]
    @@ [p \in {"/Alarms/LowVoltage", "/Alarms/HighVoltage", "/Alarms/LowSoc"} |-> ALARM_OK]
    @@ [p \in {"/Capacity", "/InstalledCapacity"} |-> cfg["capacity"]]
    @@ [p \in {"/Io/AllowToCharge", "/Io/AllowToDischarge", "/Io/AllowToBalance"} |-> 1]
    @@ ("/TimeToGo" :> R(FOREVER))
    @@ ("/History/FullDischarges" :> 0)
    @@ ("/Info/MaxChargeVoltage" :> fullV)
    @@ ("/Info/MaxChargeCurrent" :> ConfigGet(cfg, "maxChargeCurrent", None))
    @@ ("/Info/MaxDischargeCurrent" :> ConfigGet(cfg, "maxDischargeCurrent", None))

\* __init__(conn, cfg): a ValueError (bad thresholds) or a KeyError (no
\* 'capacity', line 134) leaves no service behind
Construct(cfg) ==
    /\ status = "init"
    /\ LET emptyV == ConfigGet(cfg, "emptyVoltage", DEFAULT_EMPTY_VOLTAGE)
           minV   == ConfigGet(cfg, "minVoltage", DEFAULT_MIN_VOLTAGE)
           fullV  == ConfigGet(cfg, "fullVoltage", DEFAULT_FULL_VOLTAGE)
           maxV   == ConfigGet(cfg, "maxVoltage", DEFAULT_MAX_VOLTAGE)
       IN  IF ThresholdsAccepted(emptyV, minV, fullV, maxV) /\ "capacity" \in DOMAIN cfg
           THEN /\ status' = "running"
                /\ config' = cfg
                /\ emptyVoltage' = emptyV
                /\ minVoltage' = minV
                /\ fullVoltage' = fullV
                /\ maxVoltage' = maxV
                /\ local_values' = InitialValues(cfg, fullV)
                /\ lastPower' = None
                /\ dataHistory' = <<>>
                /\ UNCHANGED <<monitor, now, ticks, filteredCurrent,
                               filteredVoltageSample, arrivals, journal>>
           ELSE /\ status' = "failed"
                /\ UNCHANGED <<config, emptyVoltage, minVoltage, fullVoltage, maxVoltage,
                               local_values, lastPower, dataHistory, monitor, now,
                               ticks, filteredCurrent, filteredVoltageSample, arrivals,
                               journal>>

----------------------------------------------------------------------------
(* BatteryService.update: source aggregation, lines 176-223                *)

\* self._get_value(serviceName, path, defaultValue): the default when the
\* monitor holds no value for the path
_get_value(values, path, defaultValue) ==
    IF path \in DOMAIN values /\ values[path] # None THEN values[path] ELSE defaultValue

\* lines 182-185: solar chargers first, then loads, then sources
Services(snap) ==
    [i \in 1..Len(snap.solarcharger) |-> [type |-> "solarcharger", values |-> snap.solarcharger[i]]]
    \o [i \in 1..Len(snap.dcload) |-> [type |-> "dcload", values |-> snap.dcload[i]]]
    \o [i \in 1..Len(snap.dcsource) |-> [type |-> "dcsource", values |-> snap.dcsource[i]]]

\* a deadband test that lets a reading at exactly the deadband through
AtOrAboveDeadband(voltage) == RLe(VOLTAGE_DEADBAND, voltage)

\* lines 196 and 200: voltage > VOLTAGE_DEADBAND
AboveDeadband(voltage) == RLt(VOLTAGE_DEADBAND, voltage)

\* one pass of the loop body, lines 188-206
ServiceStep(acc, service) ==
    LET current == _get_value(service.values, "/Dc/0/Current", R(0))
        voltage == _get_value(service.values, "/Dc/0/Voltage", R(0))
        power   == _get_value(service.values, "/Dc/0/Power", RMul(voltage, current))
        isLoad  == service.type = "dcload"
        live    == AboveDeadband(voltage)
    IN  [bestLoadVoltage |->
            IF isLoad /\ live THEN _safe_max(voltage, acc.bestLoadVoltage)
            ELSE acc.bestLoadVoltage,
         bestSourceVoltage |->
            IF ~isLoad /\ live THEN _safe_min(voltage, acc.bestSourceVoltage)
            ELSE acc.bestSourceVoltage,
         totalCurrent |-> RAdd(acc.totalCurrent, IF isLoad THEN RNeg(current) ELSE current),
         totalPower |-> RAdd(acc.totalPower, IF isLoad THEN RNeg(power) ELSE power),
         chargingState |->
            IF service.type = "solarcharger" THEN _get_value(service.values, "/State", None)
            ELSE acc.chargingState]

RECURSIVE ServiceLoop(_, _)
ServiceLoop(acc, services) ==
    IF services = <<>> THEN acc
    ELSE ServiceLoop(ServiceStep(acc, Head(services)), Tail(services))

\* lines 176-206
Aggregate(snap) ==
    ServiceLoop([bestLoadVoltage |-> None, bestSourceVoltage |-> None,
                 totalCurrent |-> R(0), totalPower |-> R(0), chargingState |-> None],
                Services(snap))

\* lines 208-212: the first sensor of type battery decides
RECURSIVE Temperature(_)
Temperature(sensors) ==
    IF sensors = <<>> THEN R(STANDARD_TEMPERATURE)
    ELSE IF _get_value(Head(sensors), "/TemperatureType", None) = R(BATTERY_TEMPERATURE_SENSOR)
         THEN _get_value(Head(sensors), "/Temperature", R(STANDARD_TEMPERATURE))
         ELSE Temperature(Tail(sensors))

\* a fusion that takes the load side whenever there is one, and never the mean
FuseLoadFirst(bestLoadVoltage, bestSourceVoltage) ==
    IF Truthy(bestLoadVoltage) THEN bestLoadVoltage
    ELSE IF Truthy(bestSourceVoltage) THEN bestSourceVoltage
    ELSE None

\* lines 217-223
FuseVoltage(bestLoadVoltage, bestSourceVoltage) ==
    IF Truthy(bestLoadVoltage) /\ Truthy(bestSourceVoltage)
    THEN RDiv(RAdd(bestLoadVoltage, bestSourceVoltage), R(2))
    ELSE IF Truthy(bestLoadVoltage) THEN bestLoadVoltage
    ELSE IF Truthy(bestSourceVoltage) THEN bestSourceVoltage
    ELSE None

\* line 246: chargingState == FLOAT_STATE, chargingState as the loop left it
chargingFloatDetected(snap) == Aggregate(snap).chargingState = R(FLOAT_STATE)

BatteryVoltage(snap) ==
    FuseVoltage(Aggregate(snap).bestLoadVoltage, Aggregate(snap).bestSourceVoltage)

----------------------------------------------------------------------------
(* BatteryService.update: charge accumulator, lines 229-248                *)

\* an integration that loses the sign of the energy
EnergyMagnitude(last, totalPower, t) ==
    LET energy == RMul(RDiv(RAdd(last.power, totalPower), R(2)), RSub(t, last.timestamp))
    IN  IF RLt(energy, R(0)) THEN RNeg(energy) ELSE energy

\* an integration by rectangles: the anchor's power over the whole interval
EnergyRectangle(last, totalPower, t) ==
    RMul(last.power, RSub(t, last.timestamp))

\* an integration over the time since the preceding update() call only
EnergySinceLastTick(last, totalPower, t) ==
    RMul(RDiv(RAdd(last.power, totalPower), R(2)), RSub(t, now))

\* line 232, trapezium integration
Energy(last, totalPower, t) ==
    RMul(RDiv(RAdd(last.power, totalPower), R(2)), RSub(t, last.timestamp))

\* an integration that does not clamp remainingAh
IntegrateUnclamped(lv, last, totalPower, t, batteryVoltage, capacity) ==
    LET held == [charged |-> lv["/History/ChargedEnergy"],
                 discharged |-> lv["/History/DischargedEnergy"],
                 drawn |-> lv["/History/TotalAhDrawn"],
                 remainingAh |-> lv["/Capacity"]]
    IN  IF last = None THEN held
        ELSE LET energy == Energy(last, totalPower, t)
             IN  IF RLt(R(0), energy)
                 THEN [held EXCEPT
                         !.charged = RAdd(@, toKWh(energy)),
                         !.remainingAh = RAdd(@, toAh(energy, batteryVoltage))]
                 ELSE IF RLt(energy, R(0))
                 THEN [held EXCEPT
                         !.discharged = RAdd(@, toKWh(RNeg(energy))),
                         !.drawn = RAdd(@, toAh(RNeg(energy), batteryVoltage)),
                         !.remainingAh = RSub(@, toAh(RNeg(energy), batteryVoltage))]
                 ELSE held

\* lines 229-243: the counters and remainingAh after integration
Integrate(lv, last, totalPower, t, batteryVoltage, capacity) ==
    LET held == [charged |-> lv["/History/ChargedEnergy"],
                 discharged |-> lv["/History/DischargedEnergy"],
                 drawn |-> lv["/History/TotalAhDrawn"],
                 remainingAh |-> lv["/Capacity"]]
    IN  IF last = None THEN held
        ELSE LET energy == Energy(last, totalPower, t)
             IN  IF RLt(R(0), energy)
                 THEN [held EXCEPT
                         !.charged = RAdd(@, toKWh(energy)),
                         !.remainingAh = RMin(RAdd(@, toAh(energy, batteryVoltage)), capacity)]
                 ELSE IF RLt(energy, R(0))
                 THEN [held EXCEPT
                         !.discharged = RAdd(@, toKWh(RNeg(energy))),
                         !.drawn = RAdd(@, toAh(RNeg(energy), batteryVoltage)),
                         !.remainingAh = RMax(RSub(@, toAh(RNeg(energy), batteryVoltage)), R(0))]
                 ELSE held

\* lines 246-247
FloatOverride(remainingAh, chargingState, capacity) ==
    IF chargingState = R(FLOAT_STATE) THEN capacity ELSE remainingAh

----------------------------------------------------------------------------
(* BatteryService.update: sample window and median filters                 *)

\* an eviction that drops the newest samples instead of the oldest
EvictNewest(history) ==
    IF Len(history) > MAX_DATA_HISTORY THEN SubSeq(history, 1, MAX_DATA_HISTORY) ELSE history

\* lines 252-253, applied to the window after the append: del history[:len - MAX]
Evict(history) ==
    IF Len(history) > MAX_DATA_HISTORY
    THEN SubSeq(history, Len(history) - MAX_DATA_HISTORY + 1, Len(history))
    ELSE history

\* sorted(history, key=lambda sample: sample.<key>): ascending and stable, so the
\* sample at position i lands behind those with a smaller key and those with the
\* same key that come before it
SortedPosition(history, key, i) ==
    1 + Cardinality({j \in 1..Len(history) :
                        \/ RLt(history[j][key], history[i][key])
                        \/ history[j][key] = history[i][key] /\ j < i})

sorted(history, key) ==
    [k \in 1..Len(history) |->
        history[CHOOSE i \in 1..Len(history) : SortedPosition(history, key, i) = k]]

\* lines 256 and 280: sorted(self.dataHistory, key)[dataHistoryLen//2], where
\* dataHistoryLen was taken at line 251, after the append and before the eviction
Median(history, key, dataHistoryLen) == sorted(history, key)[dataHistoryLen \div 2 + 1]

\* a time to go computed from the remaining capacity the previous tick published
TimeToGoStale(filtered, remainingAh, capacity) ==
    IF RLt(filtered, R(0))
    THEN RMax(RoundTo(RMul(RDiv(RSub(local_values["/Capacity"],
                                     RMul(Frac(DEPTH_OF_DISCHARGE, 100), capacity)),
                                RNeg(filtered)), R(3600)), 1),
              R(0))
    ELSE R(FOREVER)

\* lines 259-263
TimeToGo(filtered, remainingAh, capacity) ==
    IF RLt(filtered, R(0))
    THEN LET dischargeCurrent == RNeg(filtered)
             reserve == RMul(Frac(DEPTH_OF_DISCHARGE, 100), capacity)
         IN  RMax(RoundTo(RMul(RDiv(RSub(remainingAh, reserve), dischargeCurrent), R(3600)), 1),
                  R(0))
    ELSE R(FOREVER)

\* an interpolation that is not clamped to [0, 100]
SocUnclamped(voltage, emptyV, fullV) ==
    RDiv(RMul(R(100), RSub(voltage, emptyV)), RSub(fullV, emptyV))

\* lines 298-300; the division raises ZeroDivisionError when full = empty
soc_from_voltage(voltage, emptyV, fullV) ==
    RMin(RMax(RDiv(RMul(R(100), RSub(voltage, emptyV)), RSub(fullV, emptyV)), R(0)), R(100))

\* a low-SOC alarm that is raised at 10 % already
LowSocAlarmAtTen(soc) == IF RLe(soc, R(10)) THEN ALARM_ALARM ELSE ALARM_OK

\* lines 267-270
LowSocAlarm(soc) == IF RLt(soc, R(10)) THEN ALARM_ALARM ELSE ALARM_OK

\* a low-voltage alarm that spares the threshold itself
LowVoltageAlarmStrict(filteredCompensatedVoltage, minV) ==
    IF RLt(filteredCompensatedVoltage, minV) THEN ALARM_ALARM ELSE ALARM_OK

\* lines 283-286
LowVoltageAlarm(filteredCompensatedVoltage, minV) ==
    IF RLe(filteredCompensatedVoltage, minV) THEN ALARM_ALARM ELSE ALARM_OK

\* lines 287-290
HighVoltageAlarm(filteredCompensatedVoltage, maxV) ==
    IF RLe(maxV, filteredCompensatedVoltage) THEN ALARM_ALARM ELSE ALARM_OK

\* lines 273-275
DeepestDischarge(soc, deepestDischarge) ==
    IF deepestDischarge = None \/ RLt(soc, deepestDischarge) THEN soc ELSE deepestDischarge

\* lines 276-277
FullDischarges(batteryVoltage, emptyV, count) ==
    IF RLe(batteryVoltage, emptyV) THEN count + 1 ELSE count

----------------------------------------------------------------------------
(* BatteryService.update as a whole: one timer tick that finds the monitor *)
(* holding snap and the clock at now + dt                                  *)

update(snap, dt) ==
    /\ status = "running"
    /\ monitor' = snap
    /\ now' = RAdd(now, dt)
    /\ ticks' = ticks + 1
    /\ UNCHANGED <<config, emptyVoltage, minVoltage, fullVoltage, maxVoltage>>
    /\ \E agg \in {Aggregate(snap)},
          temperature \in {Temperature(snap.temperature)},
          t \in {RAdd(now, dt)},                       \* line 227
          capacity \in {config["capacity"]} :
       \E batteryVoltage \in {FuseVoltage(agg.bestLoadVoltage, agg.bestSourceVoltage)},
          \* lines 214, 216
          lv1 \in {[local_values EXCEPT
                     !["/Info/MaxChargeVoltage"] = compensated_voltage(fullVoltage, temperature),
                     !["/Dc/0/Current"] = agg.totalCurrent]} :
       IF ~ Truthy(batteryVoltage)
       THEN /\ local_values' = lv1
            /\ UNCHANGED <<status, lastPower, dataHistory, filteredCurrent,
                           filteredVoltageSample, arrivals, journal>>
       ELSE \E int \in {Integrate(local_values, lastPower, agg.totalPower, t,
                                  batteryVoltage, capacity)},
               sample \in {DataSample(agg.totalCurrent, batteryVoltage, t, temperature)} :
            \E remainingAh \in {FloatOverride(int.remainingAh, agg.chargingState, capacity)},
               dataHistoryLen \in {Len(dataHistory) + 1},          \* line 251
               history \in {Evict(Append(dataHistory, sample))} :   \* lines 250-253
            \* lines 256-257
            /\ filteredCurrent' = Median(history, "current", dataHistoryLen).current
            \* lines 225-263
            /\ \E lv2 \in {[lv1 EXCEPT
                          !["/Dc/0/Voltage"] = RoundTo(batteryVoltage, 1000),
                          !["/Dc/0/Power"] = agg.totalPower,
                          !["/History/ChargedEnergy"] = int.charged,
                          !["/History/DischargedEnergy"] = int.discharged,
                          !["/History/TotalAhDrawn"] = int.drawn,
                          !["/Capacity"] = remainingAh,
                          !["/TimeToGo"] = TimeToGo(filteredCurrent', remainingAh, capacity)]} :
               /\ lastPower' = PowerSample(agg.totalPower, t)
               /\ dataHistory' = history
               /\ arrivals' = Append(arrivals, sample)
               /\ journal' = Append(journal,
                                [monitor |-> snap, power |-> agg.totalPower,
                                 capacity |-> remainingAh, charged |-> int.charged,
                                 discharged |-> int.discharged])
               /\ IF fullVoltage = emptyVoltage
                  THEN \* line 265 raises ZeroDivisionError: the tick ends here
                       /\ status' = "crashed"
                       /\ local_values' = lv2
                       /\ UNCHANGED filteredVoltageSample
                  ELSE \E soc \in {soc_from_voltage(
                                      compensated_voltage(batteryVoltage, temperature),
                                      emptyVoltage, fullVoltage)},
                          sampleV \in {Median(history, "voltage", dataHistoryLen)} :   \* line 280
                       \E filteredCompensatedVoltage \in
                               {compensated_voltage(sampleV.voltage, sampleV.temperature)} :
                          /\ status' = status
                          /\ filteredVoltageSample' = sampleV
                          \* lines 265-290
                          /\ local_values' = [lv2 EXCEPT
                               !["/Soc"] = soc,
                               !["/Alarms/LowSoc"] = LowSocAlarm(soc),
                               !["/History/MinimumVoltage"] = _safe_min(batteryVoltage, @),
                               !["/History/MaximumVoltage"] = _safe_max(batteryVoltage, @),
                               !["/History/DeepestDischarge"] = DeepestDischarge(soc, @),
                               !["/History/FullDischarges"] =
                                   FullDischarges(batteryVoltage, emptyVoltage, @),
                               !["/Alarms/LowVoltage"] =
                                   LowVoltageAlarm(filteredCompensatedVoltage, minVoltage),
                               !["/Alarms/HighVoltage"] =
                                   HighVoltageAlarm(filteredCompensatedVoltage, maxVoltage)]

----------------------------------------------------------------------------
(* The environment: configurations, monitor contents and clock steps.      *)

MaxTicks == 3          \* update() calls explored by Spec
MaxLongTicks == 21     \* update() calls explored by SpecLong
ChangeEvery == 10      \* SpecLong: the devices change their readings every so many ticks

Reading(current, voltage) == ("/Dc/0/Current" :> current) @@ ("/Dc/0/Voltage" :> voltage)

chBulk   == Reading(R(10), R(13)) @@ ("/State" :> R(3))
chFloat  == Reading(R(2), Frac(144, 10)) @@ ("/State" :> R(FLOAT_STATE))
chDark   == ("/Dc/0/Current" :> R(0)) @@ ("/State" :> R(FLOAT_STATE))   \* no voltage published
ldA      == Reading(R(5), R(12))
ldEmpty  == Reading(R(20), Frac(118, 10))
ldOff    == Reading(R(3), R(1)) @@ ("/Dc/0/Power" :> R(3))              \* at the deadband
srcHigh  == Reading(R(1), R(15)) @@ ("/Dc/0/Power" :> R(20))

\* a cabin sensor, then the battery sensor reading 50 degrees
warm == << ("/TemperatureType" :> R(1)) @@ ("/Temperature" :> R(0)),
           ("/TemperatureType" :> R(BATTERY_TEMPERATURE_SENSOR)) @@ ("/Temperature" :> R(50)) >>

Snapshot(chargers, loads, sources, sensors) ==
    [solarcharger |-> chargers, dcload |-> loads, dcsource |-> sources, temperature |-> sensors]

NoDevices == Snapshot(<<>>, <<>>, <<>>, <<>>)

Snapshots ==
    { NoDevices,
      Snapshot(<<chBulk>>, <<>>, <<>>, <<>>),
      Snapshot(<<chFloat>>, <<>>, <<>>, <<>>),
      Snapshot(<<chFloat, chBulk>>, <<>>, <<>>, <<>>),
      Snapshot(<<chBulk, chFloat>>, <<>>, <<>>, <<>>),
      Snapshot(<<chBulk>>, <<ldA>>, <<>>, <<>>),
      Snapshot(<<chDark>>, <<ldOff>>, <<>>, <<>>),
      Snapshot(<<>>, <<ldA>>, <<>>, <<>>),
      Snapshot(<<>>, <<ldA>>, <<>>, warm),
      Snapshot(<<>>, <<ldEmpty>>, <<>>, <<>>),
      Snapshot(<<>>, <<>>, <<srcHigh>>, <<>>) }

\* seconds between two update() calls: the same clock reading, or an hour
Dts == {R(0), R(3600)}

Configs ==
    { ("capacity" :> R(10)),
      ("capacity" :> R(10)) @@ ("emptyVoltage" :> Frac(1175, 100)) @@ ("minVoltage" :> R(12))
          @@ ("fullVoltage" :> Frac(1425, 100)) @@ ("maxVoltage" :> R(15)),
      ("capacity" :> R(10)) @@ ("minVoltage" :> Frac(128, 10)),
      ("capacity" :> R(10)) @@ ("emptyVoltage" :> Frac(128, 10)) @@ ("minVoltage" :> Frac(128, 10)),
      ("capacity" :> R(10)) @@ ("fullVoltage" :> R(15)),
      ("capacity" :> R(10)) @@ ("minVoltage" :> R(13)),
      ("capacity" :> R(10)) @@ ("emptyVoltage" :> Frac(125, 10)),
      ("maxChargeCurrent" :> R(30)) }

LongConfig == ("capacity" :> R(100))

LongSnapshots ==
    { Snapshot(<<chBulk>>, <<>>, <<>>, <<>>),
      Snapshot(<<>>, <<ldA>>, <<>>, <<>>),
      Snapshot(<<>>, <<ldA>>, <<>>, warm),
      Snapshot(<<>>, <<ldEmpty>>, <<>>, <<>>),
      Snapshot(<<chDark>>, <<ldOff>>, <<>>, <<>>) }

Init ==
    /\ status = "init"
    /\ config = None
    /\ emptyVoltage = None
    /\ minVoltage = None
    /\ fullVoltage = None
    /\ maxVoltage = None
    /\ local_values = <<>>
    /\ lastPower = None
    /\ dataHistory = <<>>
    /\ monitor = NoDevices
    /\ now = R(0)
    /\ ticks = 0
    /\ filteredCurrent = None
    /\ filteredVoltageSample = None
    /\ arrivals = <<>>
    /\ journal = <<>>

Next ==
    \/ \E cfg \in Configs : Construct(cfg)
    \/ \E snap \in Snapshots, dt \in Dts : ticks < MaxTicks /\ update(snap, dt)

Spec == Init /\ [][Next]_vars

\* a long run under the default thresholds: hourly ticks, the devices changing
\* their readings (and the clock its pace) only every ChangeEvery ticks
NextLong ==
    \/ Construct(LongConfig)
    \/ \E snap \in LongSnapshots, dt \in Dts :
          /\ ticks < MaxLongTicks
          /\ (ticks % ChangeEvery = 0 \/ (snap = monitor /\ dt = R(3600)))
          /\ update(snap, dt)

SpecLong == Init /\ [][NextLong]_vars

\* a charger and a load of the same power at the same voltage, the charger in
\* bulk or in float, and a heavier load: runs that charge and discharge in turn
MaxTripTicks == 5      \* update() calls explored by SpecTrip

chEven      == Reading(R(5), R(12)) @@ ("/State" :> R(3))
chEvenFloat == Reading(R(5), R(12)) @@ ("/State" :> R(FLOAT_STATE))

TripConfig == ("capacity" :> R(10))

TripSnapshots ==
    { Snapshot(<<chEven>>, <<>>, <<>>, <<>>),
      Snapshot(<<chEvenFloat>>, <<>>, <<>>, <<>>),
      Snapshot(<<>>, <<ldA>>, <<>>, <<>>),
      Snapshot(<<>>, <<ldEmpty>>, <<>>, <<>>) }

NextTrip ==
    \/ Construct(TripConfig)
    \/ \E snap \in TripSnapshots, dt \in Dts : ticks < MaxTripTicks /\ update(snap, dt)

SpecTrip == Init /\ [][NextTrip]_vars

\* ticks on one reading of the clock over every combination of up to two
\* chargers, up to two loads and at most one source, among them devices without
\* a voltage, at the deadband, and with a reading of four decimals
MaxFuseTicks == 1      \* update() calls explored by SpecFuse

ldFine == Reading(R(5), Frac(120004, 10000))
srcLow == Reading(R(2), Frac(125, 10))

\* the sequences of at most two elements of S
UpToTwo(S) == {<<>>} \cup {<<a>> : a \in S} \cup {<<a, b>> : a \in S, b \in S}

FuseConfig == ("capacity" :> R(10))

FuseSnapshots ==
    { Snapshot(chargers, loads, sources, <<>>) :
        chargers \in UpToTwo({chBulk, chFloat}) \cup {<<chDark>>},
        loads \in UpToTwo({ldA, ldEmpty}) \cup {<<ldOff>>, <<ldFine>>},
        sources \in {<<>>, <<srcHigh>>, <<srcLow>>} }

NextFuse ==
    \/ Construct(FuseConfig)
    \/ \E snap \in FuseSnapshots : ticks < MaxFuseTicks /\ update(snap, R(0))

SpecFuse == Init /\ [][NextFuse]_vars

\* a 100 Ah battery with one load of 5 A at 12 V as the only device, the clock
\* advancing by a second or by an hour between two update() calls.  main()
\* constructs the service (line 312), and the timer of line 313 calls update()
\* again for as long as it returns True (line 291): the construction happens
\* and the count of update() calls keeps growing while a call is left to make.
\* The two fairness conditions are on these two steps, told by the variable
\* they change.
MaxDrainTicks == 7     \* update() calls explored by SpecDrain

DrainDts == {R(1), R(3600)}

NextDrain ==
    \/ Construct(LongConfig)
    \/ \E dt \in DrainDts :
          ticks < MaxDrainTicks /\ update(Snapshot(<<>>, <<ldA>>, <<>>, <<>>), dt)

\* line 312: the service gets constructed
Starts == status = "init" /\ status' = "running"

\* line 313: the timer fires and update() is called once more
TimerFires == status = "running" /\ ticks < MaxDrainTicks /\ ticks' = ticks + 1

SpecDrain == Init /\ [][NextDrain]_vars /\ WF_status(Starts) /\ WF_ticks(TimerFires)

----------------------------------------------------------------------------
(* Vocabulary of the properties, read off the monitor and the state         *)
(* without going through the aggregation of update().                       *)

Constructed == status \in {"running", "crashed"}

Readings(snap) == snap.solarcharger \o snap.dcload \o snap.dcsource

\* some charger, load or source publishes a voltage above 1.0 V
LiveVoltage(snap) ==
    \E i \in 1..Len(Readings(snap)) :
        /\ "/Dc/0/Voltage" \in DOMAIN Readings(snap)[i]
        /\ RLt(R(1), Readings(snap)[i]["/Dc/0/Voltage"])

\* some solar charger publishes state 5 (float)
AnyChargerInFloat(snap) ==
    \E i \in 1..Len(snap.solarcharger) :
        /\ "/State" \in DOMAIN snap.solarcharger[i]
        /\ snap.solarcharger[i]["/State"] = R(5)

\* the latest update() call fused a voltage and returned
AfterFusedTick == status = "running" /\ ticks > 0 /\ LiveVoltage(monitor)

\* the latest update() call found no voltage
AfterNoVoltageTick == Constructed /\ ticks > 0 /\ ~ LiveVoltage(monitor)

\* this step is an update() call
TickStep == status = "running" /\ ticks' = ticks + 1

----------------------------------------------------------------------------
C2_Monotone ==
    [][TickStep =>
        /\ local_values["/History/MinimumVoltage"] # None =>
              /\ local_values'["/History/MinimumVoltage"] # None
              /\ RLe(local_values'["/History/MinimumVoltage"],
                     local_values["/History/MinimumVoltage"])
        /\ local_values["/History/MaximumVoltage"] # None =>
              /\ local_values'["/History/MaximumVoltage"] # None
              /\ RLe(local_values["/History/MaximumVoltage"],
                     local_values'["/History/MaximumVoltage"])
        /\ local_values["/History/DeepestDischarge"] # None =>
              /\ local_values'["/History/DeepestDischarge"] # None
              /\ RLe(local_values'["/History/DeepestDischarge"],
                     local_values["/History/DeepestDischarge"])
        /\ \A p \in {"/History/ChargedEnergy", "/History/DischargedEnergy",
                     "/History/TotalAhDrawn"} :
              RLe(local_values[p], local_values'[p])
    ]_vars

\* C2 witness: both energy counters have grown, the voltage has been both below
\* and above its present extremes, and the SOC is above its deepest discharge
C2_Witness ==
    /\ AfterFusedTick
    /\ RLt(R(0), local_values["/History/ChargedEnergy"])
    /\ RLt(R(0), local_values["/History/DischargedEnergy"])
    /\ RLt(R(0), local_values["/History/TotalAhDrawn"])
    /\ RLt(local_values["/History/MinimumVoltage"], local_values["/History/MaximumVoltage"])
    /\ RLt(local_values["/History/DeepestDischarge"], local_values["/Soc"])

(* C3: from any state with remaining capacity below the configured          *)
(* capacity, every tick whose snapshot holds a solar charger in float       *)
(* state ends with the remaining capacity equal to the configured capacity, *)
(* whatever energy the tick integrates and whatever the other readings      *)
(* are.  Stated for the ticks in which the charge accumulator runs at all,  *)
(* those that fuse a voltage; a tick without one changes nothing (C7).      *)
C3_FloatAlwaysFills ==
    [][(/\ TickStep
        /\ RLt(local_values["/Capacity"], config["capacity"])
        /\ AnyChargerInFloat(monitor')
        /\ LiveVoltage(monitor'))
       => local_values'["/Capacity"] = config["capacity"]
    ]_vars

(* C4: in every tick, float is detected if and only if at least one solar   *)
(* charger of the snapshot reports the float state, whatever the order of   *)
(* the chargers and the states of the others.                               *)
C4_FloatIffAnyCharger ==
    (Constructed /\ ticks > 0) =>
        (chargingFloatDetected(monitor) <=> AnyChargerInFloat(monitor))

(* C5: construction succeeds only if emptyVoltage < minVoltage <            *)
(* fullVoltage < maxVoltage holds strictly.                                 *)
C5_StrictOrderWhenConstructed ==
    Constructed =>
        /\ RLt(emptyVoltage, minVoltage)
        /\ RLt(minVoltage, fullVoltage)
        /\ RLt(fullVoltage, maxVoltage)

(* C6: after a tick in which no voltage was fused, both /Dc/0/Current and   *)
(* /Dc/0/Power hold the totals of that tick's snapshot.                     *)
C6_CurrentAndPowerFollow ==
    AfterNoVoltageTick =>
        /\ local_values["/Dc/0/Current"] = Aggregate(monitor).totalCurrent
        /\ local_values["/Dc/0/Power"] = Aggregate(monitor).totalPower

(* C7: a tick in which no voltage is fused leaves every voltage-dependent   *)
(* part of the state as it was: voltage, remaining capacity (even with a    *)
(* charger in float), SOC, time to go, the three alarms, the voltage        *)
(* extremes, the deepest discharge, the full-discharge count, the energy    *)
(* and amp-hour counters, the sample window and the integration anchor.     *)
C7_NoVoltageTickFrame ==
    [][(TickStep /\ ~ LiveVoltage(monitor')) =>
        /\ \A p \in {"/Dc/0/Voltage", "/Capacity", "/Soc", "/TimeToGo",
                     "/Alarms/LowVoltage", "/Alarms/HighVoltage", "/Alarms/LowSoc",
                     "/History/MinimumVoltage", "/History/MaximumVoltage",
                     "/History/DeepestDischarge", "/History/FullDischarges",
                     "/History/ChargedEnergy", "/History/DischargedEnergy",
                     "/History/TotalAhDrawn"} :
              local_values'[p] = local_values[p]
        /\ dataHistory' = dataHistory
        /\ lastPower' = lastPower
    ]_vars

\* C7 witness: a no-voltage tick with a charger in float, the battery not full,
\* samples in the window and an anchor set
C7_Witness ==
    /\ AfterNoVoltageTick
    /\ AnyChargerInFloat(monitor)
    /\ RLt(local_values["/Capacity"], config["capacity"])
    /\ Len(dataHistory) > 0
    /\ lastPower # None

\* the last n elements of a sequence
LastOf(seq, n) == SubSeq(seq, Len(seq) - n + 1, Len(seq))

(* C8: the sample window never holds more than 19 samples, its timestamps   *)
(* never decrease from front to back, and it always equals the last         *)
(* min(n, 19) samples of the n fused so far; a tick that fuses a voltage    *)
(* adds exactly one sample, at the back, and any other tick adds none.      *)
C8_WindowIsLastK ==
    /\ [](Constructed =>
            /\ Len(dataHistory) <= 19
            /\ \A i \in 1..Len(dataHistory) : \A j \in i..Len(dataHistory) :
                  RLe(dataHistory[i].timestamp, dataHistory[j].timestamp)
            /\ dataHistory =
                  LastOf(arrivals, IF Len(arrivals) < 19 THEN Len(arrivals) ELSE 19))
    /\ [][TickStep =>
            IF LiveVoltage(monitor')
            THEN /\ Len(arrivals') = Len(arrivals) + 1
                 /\ dataHistory'[Len(dataHistory')] = arrivals'[Len(arrivals')]
                 /\ dataHistory'[Len(dataHistory')].timestamp = now'
                 /\ dataHistory'[Len(dataHistory')].current = local_values'["/Dc/0/Current"]
            ELSE /\ arrivals' = arrivals
                 /\ dataHistory' = dataHistory
       ]_vars

\* C8 witness: more than 19 samples have arrived, the window is full and its
\* oldest sample is no longer the first that arrived
C8_Witness ==
    /\ Len(arrivals) > 19
    /\ Len(dataHistory) = 19
    /\ dataHistory[1] # arrivals[1]

(* C9: after every tick that fuses a voltage, the filtered current is the   *)
(* current of the element at index floor(length/2) of the window sorted by  *)
(* current, and the filtered voltage and temperature are those of the       *)
(* element at index floor(length/2) of the window sorted by voltage, length *)
(* being the number of samples in the window after the tick's append and    *)
(* eviction.                                                                *)
C9_MedianOfWindow ==
    AfterFusedTick =>
        /\ filteredCurrent =
              sorted(dataHistory, "current")[Len(dataHistory) \div 2 + 1].current
        /\ filteredVoltageSample.voltage =
              sorted(dataHistory, "voltage")[Len(dataHistory) \div 2 + 1].voltage
        /\ filteredVoltageSample.temperature =
              sorted(dataHistory, "voltage")[Len(dataHistory) \div 2 + 1].temperature

\* the filtered, temperature-compensated voltage of the latest fused tick
FilteredCompensatedVoltage ==
    RSub(filteredVoltageSample.voltage,
         RMul(RSub(filteredVoltageSample.temperature, R(25)), Frac(-16, 1000)))

(* C10: after every tick that fuses a voltage, /Alarms/LowVoltage is Alarm  *)
(* (2) if the filtered compensated voltage is <= minVoltage and Ok (0)      *)
(* otherwise, and /Alarms/HighVoltage is Alarm if it is >= maxVoltage and   *)
(* Ok otherwise, whatever the alarms were before; the threshold itself      *)
(* raises the alarm.                                                        *)
C10_VoltageAlarms ==
    AfterFusedTick =>
        /\ local_values["/Alarms/LowVoltage"] =
              (IF RLe(FilteredCompensatedVoltage, minVoltage) THEN 2 ELSE 0)
        /\ local_values["/Alarms/HighVoltage"] =
              (IF RLe(maxVoltage, FilteredCompensatedVoltage) THEN 2 ELSE 0)

\* C10 witness: the filtered compensated voltage sits exactly on minVoltage and
\* the low-voltage alarm is raised, after a tick whose filtered compensated
\* voltage sat exactly on maxVoltage and raised the other alarm
C10_Witness ==
    /\ AfterFusedTick
    /\ FilteredCompensatedVoltage = minVoltage
    /\ local_values["/Alarms/LowVoltage"] = 2
    /\ local_values["/Alarms/HighVoltage"] = 0
    /\ local_values["/History/MaximumVoltage"] = maxVoltage

\* the sample the latest fused tick appended: its fused voltage and temperature
Newest == dataHistory[Len(dataHistory)]

\* x limited to [lo, hi]
Clamp(x, lo, hi) == IF RLt(x, lo) THEN lo ELSE IF RLt(hi, x) THEN hi ELSE x

(* C11: after every tick that fuses a voltage, /Soc is                      *)
(* 100 * (cv - emptyVoltage) / (fullVoltage - emptyVoltage) limited to      *)
(* [0, 100], cv being the tick's fused voltage minus                        *)
(* (temperature - 25) * (-0.016); it is a function of the tick's readings   *)
(* and the thresholds alone, so the remaining capacity has no part in it.   *)
C11_SocFromVoltage ==
    AfterFusedTick =>
        LET cv == RSub(Newest.voltage,
                       RMul(RSub(Newest.temperature, R(25)), Frac(-16, 1000)))
        IN  /\ Newest.voltage = BatteryVoltage(monitor)
            /\ Newest.temperature = Temperature(monitor.temperature)
            /\ local_values["/Soc"] =
                  Clamp(RDiv(RMul(R(100), RSub(cv, emptyVoltage)),
                             RSub(fullVoltage, emptyVoltage)),
                        R(0), R(100))
            /\ RLe(R(0), local_values["/Soc"])
            /\ RLe(local_values["/Soc"], R(100))

\* C11 witness: an SOC strictly inside (0, 100) computed at a temperature other
\* than 25 degrees while the remaining capacity is below the configured one
C11_Witness ==
    /\ AfterFusedTick
    /\ RLt(R(0), local_values["/Soc"])
    /\ RLt(local_values["/Soc"], R(100))
    /\ Newest.temperature # R(25)
    /\ RLt(local_values["/Capacity"], config["capacity"])

\* seconds until the remaining capacity published by the latest tick reaches half
\* of the configured capacity at the filtered discharge current, not rounded
SecondsToHalf ==
    RMul(RDiv(RSub(local_values["/Capacity"], RMul(Frac(50, 100), config["capacity"])),
              RNeg(filteredCurrent)),
         R(3600))

(* C12 as stated: after every tick that fuses a voltage, /TimeToGo is       *)
(* 864000 if the filtered current is >= 0 and otherwise exactly             *)
(* max(0, (remaining - 0.50 * capacity) / (-filteredCurrent) * 3600), with  *)
(* the remaining capacity this tick published.                              *)
C12_TimeToGoExact ==
    AfterFusedTick =>
        local_values["/TimeToGo"] =
            (IF RLe(R(0), filteredCurrent) THEN R(864000)
             ELSE RMax(R(0), SecondsToHalf))

(* C12 amended: after every tick that fuses a voltage, /TimeToGo is 864000  *)
(* if the filtered current is >= 0 and otherwise                            *)
(* max(0, (remaining - 0.50 * capacity) / (-filteredCurrent) * 3600)        *)
(* rounded to the nearest whole second, with the remaining capacity this    *)
(* tick published; it is never negative, and it is 0 whenever the filtered  *)
(* current is negative and the remaining capacity is at or below half of    *)
(* the configured capacity.                                                 *)
C12_TimeToGoRounded ==
    AfterFusedTick =>
        /\ local_values["/TimeToGo"] =
              (IF RLe(R(0), filteredCurrent) THEN R(864000)
               ELSE RMax(R(0), RoundTo(SecondsToHalf, 1)))
        /\ RLe(R(0), local_values["/TimeToGo"])
        /\ (/\ RLt(filteredCurrent, R(0))
            /\ RLe(local_values["/Capacity"], RMul(Frac(50, 100), config["capacity"])))
           => local_values["/TimeToGo"] = R(0)

\* C12 witness: discharging above half capacity, by a number of seconds that is
\* not whole, after a tick that changed the remaining capacity
C12_Witness ==
    /\ AfterFusedTick
    /\ RLt(filteredCurrent, R(0))
    /\ RLt(R(0), local_values["/TimeToGo"])
    /\ SecondsToHalf[2] # 1
    /\ Len(journal) > 1
    /\ journal[Len(journal)].capacity # journal[Len(journal) - 1].capacity

\* the fused ticks i .. i+3 are a round trip: i and i+1 at power P > 0, a time
\* T > 0 apart, then i+2 and i+3 at power -P, the same time T apart, all at the
\* same fused voltage; tick i leaves the starting state
RoundTrip(i) ==
    /\ RLt(R(0), journal[i].power)
    /\ journal[i + 1].power = journal[i].power
    /\ journal[i + 2].power = RNeg(journal[i].power)
    /\ journal[i + 3].power = RNeg(journal[i].power)
    /\ RLt(arrivals[i].timestamp, arrivals[i + 1].timestamp)
    /\ RSub(arrivals[i + 3].timestamp, arrivals[i + 2].timestamp)
          = RSub(arrivals[i + 1].timestamp, arrivals[i].timestamp)
    /\ \A k \in 1..3 : arrivals[i + k].voltage = arrivals[i].voltage

\* P * T of the round trip starting at i, in joules, in kWh and in Ah
TripJoules(i) ==
    RMul(journal[i].power, RSub(arrivals[i + 1].timestamp, arrivals[i].timestamp))
TripKWh(i) == RDiv(TripJoules(i), R(3600000))
TripAh(i) == RDiv(RDiv(TripJoules(i), arrivals[i].voltage), R(3600))

\* what every round trip adds to the two energy counters
TripEnergies(i) ==
    /\ journal[i + 3].charged = RAdd(journal[i].charged, TripKWh(i))
    /\ journal[i + 3].discharged = RAdd(journal[i].discharged, TripKWh(i))

(* C13 as stated: from any starting remaining capacity, charging at power P *)
(* for a time T and then discharging at power P for the time T, at the same *)
(* fused voltage, brings the remaining capacity back to where it started,   *)
(* and adds P*T (in kWh) to each of ChargedEnergy and DischargedEnergy.     *)
C13_RoundTripFromAnywhere ==
    \A i \in 1..(Len(journal) - 3) :
        RoundTrip(i) =>
            /\ journal[i + 3].capacity = journal[i].capacity
            /\ TripEnergies(i)

(* C13 amended: the same, from any starting remaining capacity that leaves  *)
(* room for the charge (start + P*T in Ah <= capacity), no solar charger    *)
(* reporting float during the round trip.                                   *)
C13_RoundTripWithRoom ==
    \A i \in 1..(Len(journal) - 3) :
        RoundTrip(i) =>
            /\ TripEnergies(i)
            /\ (/\ RLe(RAdd(journal[i].capacity, TripAh(i)), config["capacity"])
                /\ \A k \in 1..3 : ~ AnyChargerInFloat(journal[i + k].monitor))
               => /\ journal[i + 1].capacity = RAdd(journal[i].capacity, TripAh(i))
                  /\ journal[i + 3].capacity = journal[i].capacity

\* C13 witness: a round trip that started below the configured capacity with
\* room for the charge, charged, and came back
C13_Witness ==
    \E i \in 1..(Len(journal) - 3) :
        /\ RoundTrip(i)
        /\ RLe(RAdd(journal[i].capacity, TripAh(i)), config["capacity"])
        /\ \A k \in 1..3 : ~ AnyChargerInFloat(journal[i + k].monitor)
        /\ RLt(journal[i].capacity, journal[i + 1].capacity)
        /\ RLt(journal[i + 3].capacity, journal[i + 1].capacity)

\* what a device publishes, with the defaults of a missing reading: no current,
\* no voltage, and the product of the two for the power
CurrentOf(r) == IF "/Dc/0/Current" \in DOMAIN r THEN r["/Dc/0/Current"] ELSE R(0)
VoltageOf(r) == IF "/Dc/0/Voltage" \in DOMAIN r THEN r["/Dc/0/Voltage"] ELSE R(0)
PowerOf(r) ==
    IF "/Dc/0/Power" \in DOMAIN r THEN r["/Dc/0/Power"] ELSE RMul(VoltageOf(r), CurrentOf(r))

\* the voltages above 1 V that the devices of a sequence publish
LiveVoltages(devices) ==
    {VoltageOf(devices[i]) : i \in {j \in 1..Len(devices) : RLt(R(1), VoltageOf(devices[j]))}}

Highest(S) == CHOOSE x \in S : \A y \in S : RLe(y, x)
Lowest(S) == CHOOSE x \in S : \A y \in S : RLe(x, y)

RECURSIVE SumOf(_, _)
SumOf(Of(_), devices) ==
    IF devices = <<>> THEN R(0) ELSE RAdd(Of(Head(devices)), SumOf(Of, Tail(devices)))

\* the fused voltage, total current and total power a snapshot should give
FusedOf(snap) ==
    LET loadSide == LiveVoltages(snap.dcload)
        sourceSide == LiveVoltages(snap.solarcharger \o snap.dcsource)
    IN  IF loadSide # {} /\ sourceSide # {}
        THEN RDiv(RAdd(Highest(loadSide), Lowest(sourceSide)), R(2))
        ELSE IF loadSide # {} THEN Highest(loadSide)
        ELSE IF sourceSide # {} THEN Lowest(sourceSide)
        ELSE None
TotalCurrentOf(snap) ==
    RSub(SumOf(CurrentOf, snap.solarcharger \o snap.dcsource), SumOf(CurrentOf, snap.dcload))
TotalPowerOf(snap) ==
    RSub(SumOf(PowerOf, snap.solarcharger \o snap.dcsource), SumOf(PowerOf, snap.dcload))

(* C14: in every tick the fused voltage is the mean of the highest load     *)
(* voltage above 1 V and the lowest source voltage above 1 V when both      *)
(* exist, the one that exists when only one does, and none otherwise; the   *)
(* total current and power are the sums over all devices, those of the      *)
(* loads negated.  A tick without devices has zero totals and no voltage.   *)
C14_FusionAndTotals ==
    [][TickStep =>
        /\ BatteryVoltage(monitor') = FusedOf(monitor')
        /\ Aggregate(monitor').totalCurrent = TotalCurrentOf(monitor')
        /\ Aggregate(monitor').totalPower = TotalPowerOf(monitor')
        /\ local_values'["/Dc/0/Current"] = TotalCurrentOf(monitor')
        /\ IF FusedOf(monitor') = None
           THEN arrivals' = arrivals /\ lastPower' = lastPower
           ELSE /\ arrivals' = Append(arrivals,
                                      [current |-> TotalCurrentOf(monitor'),
                                       voltage |-> FusedOf(monitor'),
                                       timestamp |-> now',
                                       temperature |-> Temperature(monitor'.temperature)])
                /\ lastPower' = [power |-> TotalPowerOf(monitor'), timestamp |-> now']
                /\ local_values'["/Dc/0/Voltage"] = RoundTo(FusedOf(monitor'), 1000)
        /\ monitor' = NoDevices =>
              /\ TotalCurrentOf(monitor') = R(0)
              /\ TotalPowerOf(monitor') = R(0)
              /\ FusedOf(monitor') = None
    ]_vars

\* C14 witness: two loads and three sources with different voltages, fused into
\* a mean that is none of the readings
C14_Witness ==
    /\ AfterFusedTick
    /\ Cardinality(LiveVoltages(monitor.dcload)) = 2
    /\ Cardinality(LiveVoltages(monitor.solarcharger \o monitor.dcsource)) = 3
    /\ Newest.voltage = FusedOf(monitor)
    /\ Newest.voltage \notin LiveVoltages(Readings(monitor))
    /\ lastPower.power = TotalPowerOf(monitor)

\* energy and amp-hours have been drawn and the battery is no longer full
Drained ==
    /\ Constructed
    /\ RLt(R(0), local_values["/History/TotalAhDrawn"])
    /\ RLt(R(0), local_values["/History/DischargedEnergy"])
    /\ RLt(local_values["/Capacity"], R(100))

(* C15: with one load of 5 A at 12 V as the only device and a capacity of   *)
(* 100 Ah, the current is -5 A, the voltage 12 V and ChargedEnergy 0 from   *)
(* the first tick on, and the ticks eventually reach, and then stay in, a   *)
(* state with TotalAhDrawn > 0, DischargedEnergy > 0 and a remaining        *)
(* capacity below 100.                                                      *)
C15_LoadDrains ==
    /\ [](ticks > 0 =>
            /\ local_values["/Dc/0/Current"] = R(-5)
            /\ local_values["/Dc/0/Voltage"] = R(12)
            /\ local_values["/History/ChargedEnergy"] = R(0))
    /\ <>[]Drained

\* C15 witness: after several ticks of the load alone, drained and never charged
C15_Witness ==
    /\ ticks > 2
    /\ Drained
    /\ config["capacity"] = R(100)
    /\ monitor = Snapshot(<<>>, <<ldA>>, <<>>, <<>>)
    /\ Len(arrivals) = ticks
    /\ local_values["/Dc/0/Current"] = R(-5)
    /\ local_values["/History/ChargedEnergy"] = R(0)

\* the three alarms are Ok
AllAlarmsOk(values) ==
    \A p \in {"/Alarms/LowVoltage", "/Alarms/HighVoltage", "/Alarms/LowSoc"} : values[p] = 0

\* the window is full of samples with one and the same current, voltage and temperature
SteadyWindow ==
    /\ Len(dataHistory) = 19
    /\ \A i \in 1..19 :
          /\ dataHistory[i].current = dataHistory[1].current
          /\ dataHistory[i].voltage = dataHistory[1].voltage
          /\ dataHistory[i].temperature = dataHistory[1].temperature

(* C16: with a full window of identical samples and the three alarms Ok, a  *)
(* single tick that fuses any other voltage, however far from the window's, *)
(* leaves LowVoltage, HighVoltage and LowSoc all Ok.                        *)
C16_TransientKeepsAlarms ==
    [][(/\ TickStep
        /\ SteadyWindow
        /\ AllAlarmsOk(local_values)
        /\ LiveVoltage(monitor')
        /\ status' = "running")
       => AllAlarmsOk(local_values')
    ]_vars

(* C17: in every state of a constructed service each of the three alarms is *)
(* Ok (0) or Alarm (2), never Warning (1), and after every tick that fuses  *)
(* a voltage /Alarms/LowSoc is Alarm if and only if the /Soc the same tick  *)
(* stored is below 10; an SOC of exactly 10 gives Ok.                       *)
C17_AlarmValues ==
    Constructed =>
        /\ \A p \in {"/Alarms/LowVoltage", "/Alarms/HighVoltage", "/Alarms/LowSoc"} :
              local_values[p] \in {0, 2}
        /\ AfterFusedTick =>
              (local_values["/Alarms/LowSoc"] = 2 <=> RLt(local_values["/Soc"], R(10)))

\* C17 witness: an SOC of exactly 10 with the low-SOC alarm Ok, after a tick
\* that had raised it
C17_Witness ==
    /\ AfterFusedTick
    /\ local_values["/Soc"] = R(10)
    /\ local_values["/Alarms/LowSoc"] = 0
    /\ RLt(local_values["/History/DeepestDischarge"], R(10))

\* the trapezium between the anchor and the tick being taken: the mean of the
\* anchor's power and the tick's total power, times the time since the anchor
TrapeziumToNext ==
    RMul(RDiv(RAdd(lastPower.power, TotalPowerOf(monitor')), R(2)),
         RSub(now', lastPower.timestamp))

\* the tick being taken leaves the value at path p as it was
Kept(p) == local_values'[p] = local_values[p]

(* C18: on a tick that fuses a voltage, the energy and amp-hour counters    *)
(* change only if an anchor exists and the trapezium                        *)
(* (prevPower + power)/2 * (now - prevTimestamp) is not zero.  The first    *)
(* such tick and every tick with a zero trapezium leave ChargedEnergy,      *)
(* DischargedEnergy and TotalAhDrawn unchanged, and the remaining capacity  *)
(* too unless float is detected; a positive trapezium changes only the      *)
(* charged side, a negative one only the discharged side; in every case the *)
(* anchor after the tick is (the tick's total power, the tick's time).      *)
C18_IntegrationFrame ==
    [][(TickStep /\ LiveVoltage(monitor') /\ status' = "running") =>
        /\ lastPower' = [power |-> TotalPowerOf(monitor'), timestamp |-> now']
        /\ IF lastPower = None \/ TrapeziumToNext = R(0)
           THEN /\ Kept("/History/ChargedEnergy")
                /\ Kept("/History/DischargedEnergy")
                /\ Kept("/History/TotalAhDrawn")
                /\ chargingFloatDetected(monitor') \/ Kept("/Capacity")
           ELSE IF RLt(R(0), TrapeziumToNext)
           THEN /\ RLt(local_values["/History/ChargedEnergy"],
                       local_values'["/History/ChargedEnergy"])
                /\ Kept("/History/DischargedEnergy")
                /\ Kept("/History/TotalAhDrawn")
                /\ \/ chargingFloatDetected(monitor')
                   \/ RLe(local_values["/Capacity"], local_values'["/Capacity"])
           ELSE /\ Kept("/History/ChargedEnergy")
                /\ RLt(local_values["/History/DischargedEnergy"],
                       local_values'["/History/DischargedEnergy"])
                /\ RLt(local_values["/History/TotalAhDrawn"],
                       local_values'["/History/TotalAhDrawn"])
                /\ \/ chargingFloatDetected(monitor')
                   \/ RLe(local_values'["/Capacity"], local_values["/Capacity"])
    ]_vars

\* C18 witness: a tick an hour after the anchor whose power cancels the
\* anchor's, so that the trapezium is zero, has left the counters and the
\* remaining capacity where an earlier discharge had brought them
C18_Witness ==
    /\ AfterFusedTick
    /\ Len(journal) > 2
    /\ LET n == Len(journal)
       IN  /\ journal[n].power = RNeg(journal[n - 1].power)
           /\ journal[n].power # R(0)
           /\ RLt(arrivals[n - 1].timestamp, arrivals[n].timestamp)
           /\ journal[n].charged = journal[n - 1].charged
           /\ journal[n].discharged = journal[n - 1].discharged
           /\ journal[n].capacity = journal[n - 1].capacity
           /\ RLt(journal[n].capacity, config["capacity"])
           /\ lastPower = [power |-> journal[n].power, timestamp |-> now]

(* C19: /History/FullDischarges grows by exactly 1 on every tick that fuses *)
(* a voltage at or below emptyVoltage (the instantaneous fused voltage,     *)
(* neither filtered nor compensated), also on consecutive such ticks, and   *)
(* is unchanged on every other tick; and after every tick that fuses a      *)
(* voltage, MinimumVoltage <= /Dc/0/Voltage <= MaximumVoltage.              *)
C19_DischargeCountAndExtremes ==
    /\ [][TickStep =>
            local_values'["/History/FullDischarges"] =
                (IF /\ LiveVoltage(monitor')
                    /\ status' = "running"
                    /\ RLe(FusedOf(monitor'), emptyVoltage)
                 THEN local_values["/History/FullDischarges"] + 1
                 ELSE local_values["/History/FullDischarges"])
       ]_vars
    /\ [](AfterFusedTick =>
            /\ RLe(local_values["/History/MinimumVoltage"], local_values["/Dc/0/Voltage"])
            /\ RLe(local_values["/Dc/0/Voltage"], local_values["/History/MaximumVoltage"]))

\* the trapezium between the i-th tick that fused a voltage and the next one
\* that did, however many ticks without a voltage lie between them
GapJoules(i) ==
    RMul(RDiv(RAdd(journal[i].power, journal[i + 1].power), R(2)),
         RSub(arrivals[i + 1].timestamp, arrivals[i].timestamp))

\* energy e in J as kWh when it has the given sign, and 0 otherwise
GapKWh(e, positive) ==
    IF positive
    THEN (IF RLt(R(0), e) THEN RDiv(e, R(3600000)) ELSE R(0))
    ELSE (IF RLt(e, R(0)) THEN RDiv(RNeg(e), R(3600000)) ELSE R(0))

(* C20: a tick without a fused voltage leaves the integration anchor as it  *)
(* was, so the anchor is always (power, time) of the latest tick that fused *)
(* a voltage, and between two consecutive such ticks the energy counters    *)
(* grow by the trapezium between those two endpoints, whatever number of    *)
(* ticks without a voltage lies between them.                               *)
C20_GapIntegration ==
    /\ [][(TickStep /\ ~ LiveVoltage(monitor')) => lastPower' = lastPower]_vars
    /\ [](status = "running" =>
            /\ lastPower = (IF journal = <<>> THEN None
                            ELSE [power |-> journal[Len(journal)].power,
                                  timestamp |-> arrivals[Len(journal)].timestamp])
            /\ \A i \in 1..(Len(journal) - 1) :
                  /\ journal[i + 1].charged =
                        RAdd(journal[i].charged, GapKWh(GapJoules(i), TRUE))
                  /\ journal[i + 1].discharged =
                        RAdd(journal[i].discharged, GapKWh(GapJoules(i), FALSE)))

\* C20 witness: two ticks that fused a voltage, two hours apart with a tick
\* without a voltage an hour after the first, and the discharge counted over
\* the whole two hours
C20_Witness ==
    /\ AfterFusedTick
    /\ ticks = 3
    /\ Len(journal) = 2
    /\ RSub(arrivals[2].timestamp, arrivals[1].timestamp) = R(7200)
    /\ RLt(journal[1].power, R(0))
    /\ journal[2].power = journal[1].power
    /\ journal[2].discharged =
          RAdd(journal[1].discharged, RDiv(RMul(RNeg(journal[1].power), R(7200)), R(3600000)))
    /\ RLt(journal[2].capacity, journal[1].capacity)

====
